---- MODULE Spec2Model ----
(***************************************************************************)
(* Model of the record distributor: the distribution engine                *)
(* (backend/utils/distributionEngine.js) and the handlers that store a     *)
(* Distribution and keep the agents' task counters                         *)
(* (backend/controllers/distributionController.js).                        *)
(*                                                                         *)
(* The specifications share the variables:                                 *)
(*   EngineSpec  one call of DistributionEngine.distribute on inputs drawn *)
(*               from bounded sets;                                        *)
(*   Spec        the store: sequential requests uploadAndDistribute,       *)
(*               updateRecordStatus, deleteDistribution, updateAgent;      *)
(*   ConcSpec    the store under concurrent requests: updateRecordStatus   *)
(*               and deleteDistribution taken one await at a time;         *)
(*   FaultSpec   ConcSpec with database calls that may reject;             *)
(*   RedistSpec  one call of DistributionEngine.redistributeTasks;         *)
(*   WeightSpec  one call of calculateAgentWeights on one agent;           *)
(*   LookupSpec  EngineSpec on strategy names that are none of the three;  *)
(*   CreateSpec  uploadAndDistribute taken one await at a time, with       *)
(*               database calls that may reject;                           *)
(*   ProfileSpec the store with updateAgent changing names and addresses;  *)
(*   EntrySpec   the store served by the controller server.js mounts and   *)
(*               by the PATCH route of the records.                        *)
(*                                                                         *)
(* Numbers the engine computes in floating point (weights, proportions)    *)
(* are modelled as exact rationals <<numerator, denominator>>.  A Date is  *)
(* modelled by whether it is set; a notes text by its length.              *)
(***************************************************************************)
EXTENDS Integers, Sequences, FiniteSets, TLC

\* ---------------------------------------------------------------- bounds
MaxRecords == 3      \* longest record list handed to the engine
MaxAgents == 3       \* longest agent list handed to the engine
NumUsers == 2        \* agents in the user collection of the store
MaxDists == 2        \* Distributions that exist at the same time
MaxUpload == 2       \* longest record list of one upload
MaxOps == 3          \* requests served in one behaviour of the store
NumReqs == 2         \* requests in flight at the same time
MaxAssigned == 101   \* largest assignedTasks of the agent whose weight is computed

VARIABLES
    records,     \* engine: the caller's record array
    agents,      \* engine: the caller's agent array
    strategy,    \* engine: the strategy name passed
    result,      \* engine: what distribute returned or threw
    called,      \* engine: distribute has been called
    users,       \* store: the agents of the User collection
    dists,       \* store: the Distribution collection, by id
    resp,        \* store: the request last served and its response
    ops,         \* store: number of requests served
    reqs,        \* store: the requests in flight, each with its position in the handler
    failedTasks,            \* redistributeTasks: the tasks to hand out again
    originalDistribution,   \* redistributeTasks: the caller's distribution object
    redistribution,         \* redistributeTasks: what the call returned or threw
    weightList   \* calculateAgentWeights: what the call returned

vars == <<records, agents, strategy, result, called, users, dists, resp, ops, reqs,
          failedTasks, originalDistribution, redistribution, weightList>>
engineVars == <<records, agents, strategy, result, called>>
utilVars == <<failedTasks, originalDistribution, redistribution, weightList>>
storeVars == <<users, dists, resp, ops, reqs>>

\* ------------------------------------------------------ sequence helpers
Min(a, b) == IF a <= b THEN a ELSE b

\* Array.prototype.slice(from, to) with 0-based from, exclusive to
Slice(s, from, to) == SubSeq(s, Min(from, Len(s)) + 1, Min(to, Len(s)))

RECURSIVE SumSeq(_)
SumSeq(s) == IF s = <<>> THEN 0 ELSE Head(s) + SumSeq(Tail(s))

RECURSIVE Flatten(_)
Flatten(ss) == IF ss = <<>> THEN <<>> ELSE Head(ss) \o Flatten(Tail(ss))

\* ----------------------------------------------------- exact arithmetic
RECURSIVE GCD(_, _)
GCD(a, b) == IF b = 0 THEN a ELSE GCD(b, a % b)

Rat(n, d) == LET g == GCD(n, d) IN IF n = 0 THEN <<0, 1>> ELSE <<n \div g, d \div g>>

RatMul(x, y) ==
    LET a == Rat(x[1], y[2])
        b == Rat(y[1], x[2])
    IN  Rat(a[1] * b[1], a[2] * b[2])

RatAdd(x, y) ==
    LET g == GCD(x[2], y[2])
    IN  Rat(x[1] * (y[2] \div g) + y[1] * (x[2] \div g), x[2] * (y[2] \div g))

RatDiv(x, y) == RatMul(x, <<y[2], y[1]>>)

RatLeq(x, y) ==
    LET g == GCD(x[2], y[2])
    IN  x[1] * (y[2] \div g) <= y[1] * (x[2] \div g)

RatMax(x, y) == IF RatLeq(x, y) THEN y ELSE x

RatMin(x, y) == IF RatLeq(x, y) THEN x ELSE y

\* Math.round of a non-negative rational: floor(x + 1/2)
RatRound(x) == (2 * x[1] + x[2]) \div (2 * x[2])

\* InsertDesc that puts x before the elements of equal key
RECURSIVE InsertDescBeforeEqual(_, _)
InsertDescBeforeEqual(x, s) ==
    IF s = <<>> THEN <<x>>
    ELSE IF ~RatLeq(Head(s).key, x.key) THEN <<Head(s)>> \o InsertDescBeforeEqual(x, Tail(s))
    ELSE <<x>> \o s

\* insert the keyed element x into the descending-sorted s after every
\* element whose key is not smaller (equal keys keep their insertion order)
RECURSIVE InsertDesc(_, _)
InsertDesc(x, s) ==
    IF s = <<>> THEN <<x>>
    ELSE IF RatLeq(x.key, Head(s).key) THEN <<Head(s)>> \o InsertDesc(x, Tail(s))
    ELSE <<x>> \o s

RECURSIVE SortKeyed(_)
SortKeyed(s) ==
    IF s = <<>> THEN <<>>
    ELSE InsertDesc(s[Len(s)], SortKeyed(SubSeq(s, 1, Len(s) - 1)))

\* Array.prototype.sort((a, b) => key(b) - key(a)): descending by key, stable;
\* keys[i] is the rational key of s[i]
SortDesc(s, keys) ==
    LET keyed == SortKeyed([i \in 1..Len(s) |-> [key |-> keys[i], val |-> s[i]]])
    IN  [i \in 1..Len(s) |-> keyed[i].val]

\* ---------------------------------------------------------------- engine
StrategyNames == {"equal", "weighted", "priority"}

\* a record of the output: {...record, status: 'pending', assignedAt}
Assigned(record) ==
    [id |-> record.id, notes |-> record.notes, status |-> "pending", completedAt |-> FALSE]

AssignAll(recs) == [i \in 1..Len(recs) |-> Assigned(recs[i])]

\* equalLoop with the extra records given to the last agents instead of the first
RECURSIVE equalLoopExtraLast(_, _, _, _, _)
equalLoopExtraLast(recs, ags, i, recordIndex, distributedAgents) ==
    IF i >= Len(ags) THEN distributedAgents
    ELSE LET agentsCount == Len(ags)
             recordsPerAgent == Len(recs) \div agentsCount
             remainingRecords == Len(recs) % agentsCount
             assignCount == recordsPerAgent +
                            (IF i >= agentsCount - remainingRecords THEN 1 ELSE 0)
             agentRecords == Slice(recs, recordIndex, recordIndex + assignCount)
             group == [agentId |-> ags[i + 1]._id,
                       agentName |-> ags[i + 1].name,
                       agentEmail |-> ags[i + 1].email,
                       assignedCount |-> assignCount,
                       records |-> AssignAll(agentRecords)]
         IN  equalLoopExtraLast(recs, ags, i + 1, recordIndex + assignCount,
                                Append(distributedAgents, group))

RECURSIVE equalLoop(_, _, _, _, _)
equalLoop(recs, ags, i, recordIndex, distributedAgents) ==
    IF i >= Len(ags) THEN distributedAgents
    ELSE LET agentsCount == Len(ags)
             recordsPerAgent == Len(recs) \div agentsCount
             remainingRecords == Len(recs) % agentsCount
             assignCount == recordsPerAgent + (IF i < remainingRecords THEN 1 ELSE 0)
             agentRecords == Slice(recs, recordIndex, recordIndex + assignCount)
             group == [agentId |-> ags[i + 1]._id,
                       agentName |-> ags[i + 1].name,
                       agentEmail |-> ags[i + 1].email,
                       assignedCount |-> assignCount,
                       records |-> AssignAll(agentRecords)]
         IN  equalLoop(recs, ags, i + 1, recordIndex + assignCount,
                       Append(distributedAgents, group))

equalDistribution(recs, ags) == equalLoop(recs, ags, 0, 0, <<>>)

calculateAgentPerformance(agent) ==
    IF agent.assignedTasks = 0 THEN <<7, 10>>
    ELSE LET completionRate == Rat(agent.completedTasks, agent.assignedTasks)
             experienceFactor == RatMin(<<1, 1>>, Rat(agent.assignedTasks, 100))
         IN  RatAdd(RatMul(completionRate, <<7, 10>>), RatMul(experienceFactor, <<3, 10>>))

calculateWorkloadFactor(agent) ==
    LET pendingTasks == agent.assignedTasks - agent.completedTasks
    IN  IF pendingTasks <= 0 THEN <<1, 1>>
        ELSE IF pendingTasks >= 50 THEN <<1, 10>>
        ELSE RatMax(<<1, 10>>, Rat(50 - pendingTasks, 50))

\* calculateAgentWeights without the floor of 0.1
calculateAgentWeightsNoFloor(ags) ==
    LET weights == [i \in 1..Len(ags) |->
                       [agentId |-> ags[i]._id,
                        weight |-> RatMul(calculateAgentPerformance(ags[i]),
                                          calculateWorkloadFactor(ags[i]))]]
    IN  SortDesc(weights, [i \in 1..Len(ags) |-> weights[i].weight])

calculateAgentWeights(ags) ==
    LET weights == [i \in 1..Len(ags) |->
                       [agentId |-> ags[i]._id,
                        weight |-> RatMax(<<1, 10>>,
                                          RatMul(calculateAgentPerformance(ags[i]),
                                                 calculateWorkloadFactor(ags[i])))]]
    IN  SortDesc(weights, [i \in 1..Len(ags) |-> weights[i].weight])

RECURSIVE SumWeights(_)
SumWeights(ws) == IF ws = <<>> THEN <<0, 1>> ELSE RatAdd(Head(ws).weight, SumWeights(Tail(ws)))

RECURSIVE weightedLoop(_, _, _, _, _, _, _)
weightedLoop(recs, ags, agentWeights, totalWeight, k, recordIndex, distributedAgents) ==
    IF k > Len(agentWeights) THEN [groups |-> distributedAgents, recordIndex |-> recordIndex]
    ELSE LET agentWeight == agentWeights[k]
             agent == ags[CHOOSE i \in 1..Len(ags) : ags[i]._id = agentWeight.agentId]
             proportion == RatDiv(agentWeight.weight, totalWeight)
             assignCount == RatRound(RatMul(<<Len(recs), 1>>, proportion))
             agentRecords == Slice(recs, recordIndex, recordIndex + assignCount)
             group == [agentId |-> agent._id,
                       agentName |-> agent.name,
                       agentEmail |-> agent.email,
                       assignedCount |-> assignCount,
                       records |-> AssignAll(agentRecords)]
         IN  weightedLoop(recs, ags, agentWeights, totalWeight, k + 1,
                          recordIndex + assignCount, Append(distributedAgents, group))

\* weightedDistribution without the hand-over of the remaining records
weightedDistributionDropsRest(recs, ags) ==
    LET agentWeights == calculateAgentWeights(ags)
        totalWeight == SumWeights(agentWeights)
    IN  weightedLoop(recs, ags, agentWeights, totalWeight, 1, 0, <<>>).groups

weightedDistribution(recs, ags) ==
    LET agentWeights == calculateAgentWeights(ags)
        totalWeight == SumWeights(agentWeights)
        loop == weightedLoop(recs, ags, agentWeights, totalWeight, 1, 0, <<>>)
        remainingRecords == Slice(recs, loop.recordIndex, Len(recs))
        topPerformer == loop.groups[1]
    IN  IF loop.recordIndex < Len(recs)
        THEN [loop.groups EXCEPT ![1] =
                 [topPerformer EXCEPT
                     !.records = @ \o AssignAll(remainingRecords),
                     !.assignedCount = @ + Len(remainingRecords)]]
        ELSE loop.groups

\* records by complexity, (a.notes || '').length, high complexity first
sortRecords(recs) == SortDesc(recs, [i \in 1..Len(recs) |-> <<recs[i].notes, 1>>])

\* agents by performance, best performers first
sortAgents(ags) == SortDesc(ags, [i \in 1..Len(ags) |-> calculateAgentPerformance(ags[i])])

\* priorityLoop that stays on the last agent instead of starting over
RECURSIVE priorityLoopNoWrap(_, _, _, _)
priorityLoopNoWrap(sortedRecords, k, agentIndex, distributedAgents) ==
    IF k > Len(sortedRecords) THEN distributedAgents
    ELSE LET agent == distributedAgents[agentIndex + 1]
         IN  priorityLoopNoWrap(sortedRecords, k + 1,
                                Min(agentIndex + 1, Len(distributedAgents) - 1),
                                [distributedAgents EXCEPT ![agentIndex + 1] =
                                    [agent EXCEPT
                                        !.records = Append(@, Assigned(sortedRecords[k])),
                                        !.assignedCount = @ + 1]])

RECURSIVE priorityLoop(_, _, _, _)
priorityLoop(sortedRecords, k, agentIndex, distributedAgents) ==
    IF k > Len(sortedRecords) THEN distributedAgents
    ELSE LET agent == distributedAgents[agentIndex + 1]
         IN  priorityLoop(sortedRecords, k + 1,
                          (agentIndex + 1) % Len(distributedAgents),
                          [distributedAgents EXCEPT ![agentIndex + 1] =
                              [agent EXCEPT
                                  !.records = Append(@, Assigned(sortedRecords[k])),
                                  !.assignedCount = @ + 1]])

priorityDistribution(recs, ags) ==
    LET sortedRecords == sortRecords(recs)
        sortedAgents == sortAgents(ags)
        distributedAgents == [i \in 1..Len(sortedAgents) |->
                                 [agentId |-> sortedAgents[i]._id,
                                  agentName |-> sortedAgents[i].name,
                                  agentEmail |-> sortedAgents[i].email,
                                  assignedCount |-> 0,
                                  records |-> <<>>]]
    IN  priorityLoop(sortedRecords, 1, 0, distributedAgents)

IsActive(agent) == agent.isActive

\* calculateFairnessScore without Math.max(0, ...)
calculateFairnessScoreNoFloor(agentCounts) ==
    IF Len(agentCounts) <= 1 THEN [nan |-> FALSE, shortfallSquared |-> <<0, 1>>]
    ELSE LET avg == Rat(SumSeq(agentCounts), Len(agentCounts))
             deviation == [i \in 1..Len(agentCounts) |->
                              RatAdd(<<agentCounts[i], 1>>, <<0 - avg[1], avg[2]>>)]
             squares == [i \in 1..Len(agentCounts) |->
                            [weight |-> RatMul(deviation[i], deviation[i])]]
             variance == RatDiv(SumWeights(squares), <<Len(agentCounts), 1>>)
         IN  IF avg[1] = 0 THEN [nan |-> TRUE, shortfallSquared |-> <<0, 1>>]
             ELSE [nan |-> FALSE, shortfallSquared |-> RatDiv(variance, RatMul(avg, avg))]

\* The score is 1 - sqrt(variance) / avg floored at 0, which is
\* 1 - sqrt(min(1, variance / avg^2)): the model keeps the rational under the
\* root, shortfallSquared (0 for a score of 1, 1 for a score of 0).  With
\* avg = 0 the division is 0 / 0 and Math.max(0, NaN) is NaN.
calculateFairnessScore(agentCounts) ==
    IF Len(agentCounts) <= 1 THEN [nan |-> FALSE, shortfallSquared |-> <<0, 1>>]
    ELSE LET avg == Rat(SumSeq(agentCounts), Len(agentCounts))
             deviation == [i \in 1..Len(agentCounts) |->
                              RatAdd(<<agentCounts[i], 1>>, <<0 - avg[1], avg[2]>>)]
             squares == [i \in 1..Len(agentCounts) |->
                            [weight |-> RatMul(deviation[i], deviation[i])]]
             variance == RatDiv(SumWeights(squares), <<Len(agentCounts), 1>>)
         IN  IF avg[1] = 0 THEN [nan |-> TRUE, shortfallSquared |-> <<0, 1>>]
             ELSE [nan |-> FALSE,
                   shortfallSquared |-> RatMin(<<1, 1>>, RatDiv(variance, RatMul(avg, avg)))]

generateSummary(distributedAgents, totalRecords) ==
    LET agentCounts == [i \in 1..Len(distributedAgents) |-> distributedAgents[i].assignedCount]
        counts == {agentCounts[i] : i \in 1..Len(agentCounts)}
        minAssigned == CHOOSE c \in counts : \A e \in counts : c <= e
        maxAssigned == CHOOSE c \in counts : \A e \in counts : c >= e
        avgAssigned == Rat(totalRecords, Len(distributedAgents))
    IN  [totalAgentsAssigned |-> Len(distributedAgents),
         totalRecordsDistributed |-> totalRecords,
         averageRecordsPerAgent |-> Rat(RatRound(RatMul(avgAssigned, <<100, 1>>)), 100),
         minRecordsAssigned |-> minAssigned,
         maxRecordsAssigned |-> maxAssigned,
         distributionVariance |-> maxAssigned - minAssigned,
         fairnessScore |-> calculateFairnessScore(agentCounts)]

\* return { agents: distributedData, summary: this.generateSummary(...), ... }
Returned(distributedData, recs) ==
    [ok |-> TRUE, error |-> "", agents |-> distributedData,
     summary |-> generateSummary(distributedData, Len(recs))]

Thrown(message) == [ok |-> FALSE, error |-> message, agents |-> <<>>]

\* distribute without the check for an empty record list
distributeNoEmptyCheck(recs, ags, strat) ==
    IF Len(ags) = 0 THEN Thrown("No agents available for distribution")
    ELSE LET activeAgents == SelectSeq(ags, IsActive)
         IN  IF Len(activeAgents) = 0 THEN Thrown("No active agents available")
             ELSE Returned(CASE strat = "weighted" -> weightedDistribution(recs, activeAgents)
                                [] strat = "priority" -> priorityDistribution(recs, activeAgents)
                                [] OTHER -> equalDistribution(recs, activeAgents), recs)

\* distribute handing every agent, active or not, to the strategy
distributeNoFilter(recs, ags, strat) ==
    IF Len(recs) = 0 THEN Thrown("No records to distribute")
    ELSE IF Len(ags) = 0 THEN Thrown("No agents available for distribution")
    ELSE IF Len(SelectSeq(ags, IsActive)) = 0 THEN Thrown("No active agents available")
    ELSE Returned(CASE strat = "weighted" -> weightedDistribution(recs, ags)
                       [] strat = "priority" -> priorityDistribution(recs, ags)
                       [] OTHER -> equalDistribution(recs, ags), recs)

\* what Object(records) leaves as distributedData: the record array itself,
\* whose elements have no assignedCount, so the numbers of the summary that
\* are computed from the counts are NaN
ReturnedRecords(recs) ==
    [ok |-> TRUE, error |-> "", agents |-> recs,
     summary |-> [totalAgentsAssigned |-> Len(recs),
                  totalRecordsDistributed |-> Len(recs),
                  averageRecordsPerAgent |-> <<1, 1>>,
                  minRecordsAssigned |-> "NaN",
                  maxRecordsAssigned |-> "NaN",
                  distributionVariance |-> "NaN",
                  fairnessScore |-> [nan |-> Len(recs) > 1, shortfallSquared |-> <<0, 1>>]]]

\* this.strategies[strategy] || this.strategies.equal: this.strategies is an
\* object literal, so besides equal, weighted and priority the lookup finds
\* what Object.prototype has under the name.  "constructor" gives Object,
\* which returns its first argument; "toString" gives a function that
\* returns a string, on which generateSummary throws a TypeError.
distribute(recs, ags, strat) ==
    IF Len(recs) = 0 THEN Thrown("No records to distribute")
    ELSE IF Len(ags) = 0 THEN Thrown("No agents available for distribution")
    ELSE LET activeAgents == SelectSeq(ags, IsActive)
         IN  IF Len(activeAgents) = 0 THEN Thrown("No active agents available")
             ELSE IF strat = "toString" THEN Thrown("TypeError")
             ELSE IF strat = "constructor" THEN ReturnedRecords(recs)
             ELSE Returned(CASE strat = "weighted" -> weightedDistribution(recs, activeAgents)
                                [] strat = "priority" -> priorityDistribution(recs, activeAgents)
                                [] OTHER -> equalDistribution(recs, activeAgents), recs)

\* the caller's record array after the call: priorityDistribution sorts it in place
recordsAfter(recs, ags, strat) ==
    IF distribute(recs, ags, strat).ok /\ strat = "priority"
    THEN sortRecords(recs)
    ELSE recs

\* ------------------------------------------------- inputs of the engine
\* lengths of the notes texts
NoteLens == {0, 1}

RecordListsOf(n, lens) ==
    {[i \in 1..n |-> [id |-> i, notes |-> f[i]]] : f \in [1..n -> lens]}

RecordLists(maxLen) == UNION {RecordListsOf(n, NoteLens) : n \in 0..maxLen}

\* <<assignedTasks, completedTasks>> of the agents handed to the engine:
\* a new agent (weight 0.7), one with a pending task (0.1), one with all done (0.703)
TaskCounts == {<<0, 0>>, <<1, 0>>, <<1, 1>>}

AgentStates ==
    {[isActive |-> b, assignedTasks |-> t[1], completedTasks |-> t[2]] :
        b \in BOOLEAN, t \in TaskCounts}

AgentListsOf(n) ==
    {[i \in 1..n |-> [_id |-> i, name |-> i, email |-> i, isActive |-> f[i].isActive,
                      assignedTasks |-> f[i].assignedTasks,
                      completedTasks |-> f[i].completedTasks]] : f \in [1..n -> AgentStates]}

AgentLists == UNION {AgentListsOf(n) : n \in 0..MaxAgents}

\* the names a caller may pass: the three strategies and an unknown one
StrategyInputs == StrategyNames \cup {"random"}

\* the end-to-end scenario: 10 records, 3 active new agents
ScenarioRecords == [i \in 1..10 |-> [id |-> i, notes |-> 0]]

ScenarioAgents ==
    [i \in 1..3 |-> [_id |-> i, name |-> i, email |-> i, isActive |-> TRUE,
                      assignedTasks |-> 0, completedTasks |-> 0]]

NoResult == [ok |-> FALSE, error |-> "", agents |-> <<>>]

NoDist == [exists |-> FALSE]

NoResp ==
    [op |-> "", code |-> 0, id |-> 0, user |-> 0, recordIndex |-> 0,
     status |-> "", oldStatus |-> "", count |-> 0]

\* a request nobody has sent yet
NoReq == [op |-> "", pc |-> "idle"]

\* redistributeTasks and calculateAgentWeights not called
UtilIdle ==
    /\ failedTasks = <<>>
    /\ originalDistribution = [agents |-> <<>>]
    /\ redistribution = NoResult
    /\ weightList = <<>>

\* an agent as the admin created it: names and addresses are numbered, the
\* counters start from the schema's defaults
NewUser(u, isActive) ==
    [name |-> u, email |-> u, isActive |-> isActive, assignedTasks |-> 0, completedTasks |-> 0]

StoreIdle ==
    /\ users = [u \in 1..NumUsers |-> NewUser(u, TRUE)]
    /\ dists = [d \in 1..MaxDists |-> NoDist]
    /\ resp = NoResp
    /\ ops = 0
    /\ reqs = [r \in 1..NumReqs |-> NoReq]

EngineInit ==
    /\ \/ /\ records \in RecordLists(MaxRecords)
          /\ agents \in AgentLists
       \/ /\ records = ScenarioRecords
          /\ agents = ScenarioAgents
    /\ strategy \in StrategyInputs
    /\ result = NoResult
    /\ called = FALSE
    /\ StoreIdle
    /\ UtilIdle

\* names that are none of the three strategies: one the strategies object
\* does not know and two it inherits
UnknownStrategies == {"random", "constructor", "toString"}

LookupInit ==
    /\ records \in RecordLists(MaxRecords)
    /\ agents \in AgentLists
    /\ strategy \in UnknownStrategies
    /\ result = NoResult
    /\ called = FALSE
    /\ StoreIdle
    /\ UtilIdle

\* const result = await distributionEngine.distribute(records, agents, strategy)
Distribute ==
    /\ ~called
    /\ called' = TRUE
    /\ result' = distribute(records, agents, strategy)
    /\ records' = recordsAfter(records, agents, strategy)
    /\ UNCHANGED <<agents, strategy>>
    /\ UNCHANGED <<storeVars, utilVars>>

EngineNext == Distribute

EngineSpec == EngineInit /\ [][EngineNext]_vars

LookupSpec == LookupInit /\ [][EngineNext]_vars

\* ------------------------------------------------------ redistributeTasks
\* agent.records.filter(r => r.status === 'pending' || r.status === 'in-progress').length
currentLoad(agent) ==
    Cardinality({k \in 1..Len(agent.records) :
                    agent.records[k].status \in {"pending", "in-progress"}})

\* { ...task, status: 'pending', assignedAt: new Date(), redistributed: true }
Redistributed(task) ==
    [id |-> task.id, notes |-> task.notes, status |-> "pending",
     completedAt |-> task.completedAt, redistributed |-> TRUE]

\* originalDistribution.agents.map(agent => ({ ...agent, currentLoad }))
\*     .sort((a, b) => a.currentLoad - b.currentLoad):
\* ascending by load, stable.  The spread copies the group object but not its
\* records array: origin is the group of the original whose array it shares.
agentWorkloads(dist) ==
    LET copies == [i \in 1..Len(dist.agents) |->
                      [agentId |-> dist.agents[i].agentId,
                       assignedCount |-> dist.agents[i].assignedCount,
                       records |-> dist.agents[i].records,
                       origin |-> i,
                       currentLoad |-> currentLoad(dist.agents[i])]]
    IN  SortDesc(copies, [i \in 1..Len(copies) |-> <<0 - copies[i].currentLoad, 1>>])

\* redistributeLoop without targetAgent.assignedCount++
RECURSIVE redistributeLoopNoCount(_, _, _, _)
redistributeLoopNoCount(failed, k, agentIndex, workloads) ==
    IF k > Len(failed) THEN workloads
    ELSE LET targetAgent == workloads[agentIndex + 1]
         IN  redistributeLoopNoCount(failed, k + 1, (agentIndex + 1) % Len(workloads),
                 [workloads EXCEPT ![agentIndex + 1] =
                     [targetAgent EXCEPT
                         !.records = Append(@, Redistributed(failed[k])),
                         !.currentLoad = @ + 1]])

\* redistributeLoop that hands every task to the first group of the order
RECURSIVE redistributeLoopFirstOnly(_, _, _, _)
redistributeLoopFirstOnly(failed, k, agentIndex, workloads) ==
    IF k > Len(failed) THEN workloads
    ELSE LET targetAgent == workloads[agentIndex + 1]
         IN  redistributeLoopFirstOnly(failed, k + 1, agentIndex,
                 [workloads EXCEPT ![agentIndex + 1] =
                     [targetAgent EXCEPT
                         !.records = Append(@, Redistributed(failed[k])),
                         !.assignedCount = @ + 1,
                         !.currentLoad = @ + 1]])

\* for (const task of failedTasks) { ...; agentIndex = (agentIndex + 1) % agentWorkloads.length }
RECURSIVE redistributeLoop(_, _, _, _)
redistributeLoop(failed, k, agentIndex, workloads) ==
    IF k > Len(failed) THEN workloads
    ELSE LET targetAgent == workloads[agentIndex + 1]
         IN  redistributeLoop(failed, k + 1, (agentIndex + 1) % Len(workloads),
                 [workloads EXCEPT ![agentIndex + 1] =
                     [targetAgent EXCEPT
                         !.records = Append(@, Redistributed(failed[k])),
                         !.assignedCount = @ + 1,
                         !.currentLoad = @ + 1]])

\* the groups after the loop, with agentWorkloads.map(({ currentLoad, ...agent }) => agent)
\* not yet applied
redistributedWorkloads(failed, dist) ==
    redistributeLoop(failed, 1, 0, agentWorkloads(dist))

\* what redistributeTasks returns or throws
redistributeTasks(failed, dist) ==
    IF Len(failed) = 0
    THEN [ok |-> TRUE, error |-> "", agents |-> dist.agents,
          totalRecords |-> dist.totalRecords]
    ELSE IF Len(dist.agents) = 0
    THEN \* agentWorkloads[0] is undefined
         Thrown("TypeError")
    ELSE LET workloads == redistributedWorkloads(failed, dist)
         IN  \* { ...originalDistribution, agents: ... }
             [ok |-> TRUE, error |-> "",
              agents |-> [j \in 1..Len(workloads) |->
                             [agentId |-> workloads[j].agentId,
                              assignedCount |-> workloads[j].assignedCount,
                              records |-> workloads[j].records]],
              totalRecords |-> dist.totalRecords]

\* the caller's object after the call: targetAgent.records.push reaches the
\* records arrays of the original groups, assignedCount++ only the copies
originalAfter(failed, dist) ==
    IF Len(failed) = 0 \/ Len(dist.agents) = 0 THEN dist
    ELSE LET workloads == redistributedWorkloads(failed, dist)
         IN  [dist EXCEPT !.agents =
                 [i \in 1..Len(dist.agents) |->
                     [dist.agents[i] EXCEPT !.records =
                         workloads[CHOOSE j \in 1..Len(workloads) :
                                      workloads[j].origin = i].records]]]

\* the records of the groups handed in: nothing, one pending, one in progress
\* and one completed, two live ones and a failed one
GroupStatuses ==
    {<<>>, <<"pending">>, <<"in-progress", "completed">>, <<"pending", "failed", "in-progress">>}

GroupOf(i, statuses) ==
    [agentId |-> i,
     assignedCount |-> Len(statuses),
     records |-> [k \in 1..Len(statuses) |->
                     [id |-> 10 * i + k, notes |-> 0, status |-> statuses[k],
                      completedAt |-> statuses[k] = "completed"]]]

\* a distribution as uploadAndDistribute stores it: totalRecords counts the
\* records of its groups
DistributionOf(groups) ==
    [agents |-> groups,
     totalRecords |-> SumSeq([i \in 1..Len(groups) |-> Len(groups[i].records)])]

DistributionsOf(n) ==
    {DistributionOf([i \in 1..n |-> GroupOf(i, f[i])]) : f \in [1..n -> GroupStatuses]}

FailedTasksOf(n) ==
    [k \in 1..n |-> [id |-> 100 + k, notes |-> 0, status |-> "failed", completedAt |-> FALSE]]

\* three groups with live loads 5, 1 and 3, and two failed tasks
ScenarioDistribution ==
    DistributionOf(<<GroupOf(1, [k \in 1..5 |-> "pending"]),
                     GroupOf(2, <<"pending">>),
                     GroupOf(3, [k \in 1..3 |-> "pending"])>>)

ScenarioFailed == FailedTasksOf(2)

RedistInit ==
    /\ \/ /\ originalDistribution \in UNION {DistributionsOf(n) : n \in 0..MaxAgents}
          /\ failedTasks \in {FailedTasksOf(n) : n \in 0..MaxRecords}
       \/ /\ originalDistribution = ScenarioDistribution
          /\ failedTasks = ScenarioFailed
    /\ redistribution = NoResult
    /\ weightList = <<>>
    /\ called = FALSE
    /\ records = <<>>
    /\ agents = <<>>
    /\ strategy = "equal"
    /\ result = NoResult
    /\ StoreIdle

\* await distributionEngine.redistributeTasks(failedTasks, availableAgents, originalDistribution)
Redistribute ==
    /\ ~called
    /\ called' = TRUE
    /\ redistribution' = redistributeTasks(failedTasks, originalDistribution)
    /\ originalDistribution' = originalAfter(failedTasks, originalDistribution)
    /\ UNCHANGED <<failedTasks, weightList>>
    /\ UNCHANGED <<records, agents, strategy, result>>
    /\ UNCHANGED storeVars

RedistNext == Redistribute

RedistSpec == RedistInit /\ [][RedistNext]_vars

\* -------------------------------------------------- calculateAgentWeights
\* one agent with integer counters 0 <= completedTasks <= assignedTasks
WeighedAgents ==
    UNION {{<<[_id |-> 1, isActive |-> TRUE, assignedTasks |-> a, completedTasks |-> c]>> :
               c \in 0..a} : a \in 0..MaxAssigned}

WeightInit ==
    /\ agents \in WeighedAgents
    /\ weightList = <<>>
    /\ failedTasks = <<>>
    /\ originalDistribution = [agents |-> <<>>]
    /\ redistribution = NoResult
    /\ called = FALSE
    /\ records = <<>>
    /\ strategy = "weighted"
    /\ result = NoResult
    /\ StoreIdle

\* const agentWeights = this.calculateAgentWeights(agents)
Weigh ==
    /\ ~called
    /\ called' = TRUE
    /\ weightList' = calculateAgentWeights(agents)
    /\ UNCHANGED <<failedTasks, originalDistribution, redistribution>>
    /\ UNCHANGED <<records, agents, strategy, result>>
    /\ UNCHANGED storeVars

WeightNext == Weigh

WeightSpec == WeightInit /\ [][WeightNext]_vars

\* ----------------------------------------------------------------- store
Statuses == {"pending", "in-progress", "completed", "failed"}

UserIds == 1..NumUsers

DistIds == 1..MaxDists

\* User.find({ role: 'agent', isActive: true }), in insertion order
RECURSIVE findActiveAgents(_, _)
findActiveAgents(us, u) ==
    IF u > NumUsers THEN <<>>
    ELSE (IF us[u].isActive
          THEN <<[_id |-> u, name |-> us[u].name, email |-> us[u].email, isActive |-> TRUE,
                  assignedTasks |-> us[u].assignedTasks,
                  completedTasks |-> us[u].completedTasks]>>
          ELSE <<>>) \o findActiveAgents(us, u + 1)

\* incAssigned that adds one task per group instead of the group's assignedCount
RECURSIVE incAssignedByOne(_, _)
incAssignedByOne(us, groups) ==
    IF groups = <<>> THEN us
    ELSE incAssignedByOne([us EXCEPT ![Head(groups).agentId].assignedTasks = @ + 1],
                          Tail(groups))

\* for (const agent of distributionResult.agents)
\*   User.findByIdAndUpdate(agent.agentId, { $inc: { assignedTasks: agent.assignedCount } })
RECURSIVE incAssigned(_, _)
incAssigned(us, groups) ==
    IF groups = <<>> THEN us
    ELSE incAssigned([us EXCEPT ![Head(groups).agentId].assignedTasks =
                                    @ + Head(groups).assignedCount],
                     Tail(groups))

completedCount(group) ==
    Cardinality({k \in 1..Len(group.records) : group.records[k].status = "completed"})

\* decCounts that leaves completedTasks alone
RECURSIVE decCountsAssignedOnly(_, _)
decCountsAssignedOnly(us, groups) ==
    IF groups = <<>> THEN us
    ELSE decCountsAssignedOnly(
             [us EXCEPT ![Head(groups).agentId].assignedTasks = @ - Head(groups).assignedCount],
             Tail(groups))

\* for (const agent of distribution.agents)
\*   User.findByIdAndUpdate(agent.agentId, { $inc: { assignedTasks: -..., completedTasks: -... } })
RECURSIVE decCounts(_, _)
decCounts(us, groups) ==
    IF groups = <<>> THEN us
    ELSE decCounts([us EXCEPT ![Head(groups).agentId] =
                                  [@ EXCEPT !.assignedTasks = @ - Head(groups).assignedCount,
                                            !.completedTasks = @ - completedCount(Head(groups))]],
                   Tail(groups))

\* findAgentData that takes the first group, whoever owns it
findAgentDataAnyOwner(dist, user) == IF Len(dist.agents) = 0 THEN 0 ELSE 1

\* distribution.agents.find(agent => agent.agentId.toString() === req.user._id.toString()):
\* the position of the first group of the user, 0 if there is none
findAgentData(dist, user) ==
    LET own == {g \in 1..Len(dist.agents) : dist.agents[g].agentId = user}
    IN  IF own = {} THEN 0 ELSE CHOOSE g \in own : \A h \in own : g <= h

\* the request served and the status code of its response; for a successful
\* request also its parameters, the handler's oldStatus and count: the
\* caller's completedTasks before an update, the completed records a delete
\* took off the counters
Response(op, code, id, user, recordIndex, status, oldStatus, count) ==
    [op |-> op, code |-> code, id |-> id, user |-> user, recordIndex |-> recordIndex,
     status |-> status, oldStatus |-> oldStatus, count |-> count]

\* record.status = status; if (notes) record.notes = notes;
\* if (status === 'completed') record.completedAt = new Date()
updateRecord(record, status, notes) ==
    [record EXCEPT !.status = status,
                   !.notes = IF notes # 0 THEN notes ELSE @,
                   !.completedAt = IF status = "completed" THEN TRUE ELSE @]

\* updateTaskCounts that counts every update to completed, whatever the old status
updateTaskCountsIgnoresOld(us, user, oldStatus, status) ==
    IF status = "completed"
    THEN [us EXCEPT ![user].completedTasks = @ + 1]
    ELSE IF oldStatus = "completed"
    THEN [us EXCEPT ![user].completedTasks = @ - 1]
    ELSE us

\* the $inc of completedTasks that follows distribution.save()
updateTaskCounts(us, user, oldStatus, status) ==
    IF oldStatus # "completed" /\ status = "completed"
    THEN [us EXCEPT ![user].completedTasks = @ + 1]
    ELSE IF oldStatus = "completed" /\ status # "completed"
    THEN [us EXCEPT ![user].completedTasks = @ - 1]
    ELSE us

\* the summary paths the schema declares: Distribution.create drops the other
\* fields of the engine's summary (distributionTime, a duration, is left out)
schemaSummary(summary) ==
    [totalAgentsAssigned |-> summary.totalAgentsAssigned,
     averageRecordsPerAgent |-> summary.averageRecordsPerAgent]

\* distributionSchema.pre('save'), run by Distribution.create and by every save()
preSave(doc) ==
    IF Len(doc.agents) > 0
    THEN [doc EXCEPT !.summary =
             [@ EXCEPT !.totalAgentsAssigned = Len(doc.agents),
                       !.averageRecordsPerAgent =
                           <<RatRound(Rat(doc.totalRecords, Len(doc.agents))), 1>>]]
    ELSE doc

\* one more request served (each wrapper below serves at most MaxOps)
Served == ops' = ops + 1

\* POST /api/distributions/upload
uploadAndDistribute(data, strat) ==
    LET found == findActiveAgents(users, 1)
        distributionResult == distribute(data, found, strat)
        free == {d \in DistIds : ~dists[d].exists}
        id == CHOOSE d \in free : \A e \in free : d <= e
    IN  /\ Served
        /\ free # {}
        /\ IF Len(data) = 0
           THEN \* processFile throws 'No valid records found in the file'
                /\ resp' = Response("uploadAndDistribute", 500, 0, 0, 0, "", "", 0)
                /\ UNCHANGED <<users, dists>>
           ELSE IF Len(found) = 0
           THEN /\ resp' = Response("uploadAndDistribute", 400, 0, 0, 0, "", "", 0)
                /\ UNCHANGED <<users, dists>>
           ELSE /\ dists' = [dists EXCEPT ![id] =
                                preSave([exists |-> TRUE,
                                         totalRecords |-> Len(data),
                                         distributionStrategy |-> strat,
                                         agents |-> distributionResult.agents,
                                         summary |-> schemaSummary(distributionResult.summary)])]
                /\ users' = incAssigned(users, distributionResult.agents)
                /\ resp' = Response("uploadAndDistribute", 201, id, 0, 0, "", "", 0)
        /\ UNCHANGED <<engineVars, utilVars, reqs>>

\* PUT /api/distributions/:id/records/:recordIndex
updateRecordStatus(id, user, recordIdx, status, notes) ==
    LET distribution == dists[id]
        g == findAgentData(distribution, user)
        agentData == distribution.agents[g]
        record == agentData.records[recordIdx + 1]
        oldStatus == record.status
        before == users[user].completedTasks
    IN  /\ Served
        /\ IF ~distribution.exists
           THEN /\ resp' = Response("updateRecordStatus", 404, 0, 0, 0, "", "", 0)
                /\ UNCHANGED <<users, dists>>
           ELSE IF g = 0
           THEN /\ resp' = Response("updateRecordStatus", 403, 0, 0, 0, "", "", 0)
                /\ UNCHANGED <<users, dists>>
           ELSE IF recordIdx < 0 \/ recordIdx >= Len(agentData.records)
           THEN /\ resp' = Response("updateRecordStatus", 400, 0, 0, 0, "", "", 0)
                /\ UNCHANGED <<users, dists>>
           ELSE /\ dists' = [dists EXCEPT ![id] =
                                preSave([@ EXCEPT !.agents[g].records[recordIdx + 1] =
                                            updateRecord(record, status, notes)])]
                /\ users' = updateTaskCounts(users, user, oldStatus, status)
                /\ resp' = Response("updateRecordStatus", 200, id, user, recordIdx, status,
                                    oldStatus, before)
        /\ UNCHANGED <<engineVars, utilVars, reqs>>

\* DELETE /api/distributions/:id
deleteDistribution(id) ==
    LET distribution == dists[id]
    IN  /\ Served
        /\ IF ~distribution.exists
           THEN /\ resp' = Response("deleteDistribution", 404, 0, 0, 0, "", "", 0)
                /\ UNCHANGED <<users, dists>>
           ELSE /\ users' = decCounts(users, distribution.agents)
                /\ dists' = [dists EXCEPT ![id] = NoDist]
                /\ resp' = Response("deleteDistribution", 200, id, 0, 0, "", "",
                                    SumSeq([g \in 1..Len(distribution.agents) |->
                                               completedCount(distribution.agents[g])]))
        /\ UNCHANGED <<engineVars, utilVars, reqs>>

\* User.findByIdAndUpdate(req.params.id, req.body): the fields of the body
\* replace the agent's, the others stay
updatedUser(agent, body) ==
    [agent EXCEPT !.name = IF "name" \in DOMAIN body THEN body.name ELSE @,
                  !.email = IF "email" \in DOMAIN body THEN body.email ELSE @,
                  !.isActive = IF "isActive" \in DOMAIN body THEN body.isActive ELSE @]

\* User.findOne({ email: req.body.email }) when the body brings another address
emailInUse(id, body) ==
    /\ "email" \in DOMAIN body
    /\ body.email # users[id].email
    /\ \E u \in UserIds : users[u].email = body.email

\* updateAgent that also rewrites the name and address kept in the groups of
\* the agent
updateAgentRenamesGroups(id, body) ==
    /\ Served
    /\ IF emailInUse(id, body)
       THEN /\ resp' = Response("updateAgent", 400, id, 0, 0, "", "", 0)
            /\ UNCHANGED <<users, dists>>
       ELSE /\ users' = [users EXCEPT ![id] = updatedUser(@, body)]
            /\ dists' = [d \in DistIds |->
                            [dists[d] EXCEPT !.agents =
                                [g \in 1..Len(dists[d].agents) |->
                                    IF dists[d].agents[g].agentId = id
                                    THEN [dists[d].agents[g] EXCEPT
                                             !.agentName = users'[id].name,
                                             !.agentEmail = users'[id].email]
                                    ELSE dists[d].agents[g]]]]
            /\ resp' = Response("updateAgent", 200, id, 0, 0, "", "", 0)
    /\ UNCHANGED <<engineVars, utilVars, reqs>>

\* PUT /api/agents/:id with body { name }, { email } or { isActive }
updateAgent(id, body) ==
    /\ Served
    /\ IF emailInUse(id, body)
       THEN /\ resp' = Response("updateAgent", 400, id, 0, 0, "", "", 0)
            /\ UNCHANGED users
       ELSE /\ users' = [users EXCEPT ![id] = updatedUser(@, body)]
            /\ resp' = Response("updateAgent", 200, id, 0, 0, "", "", 0)
    /\ UNCHANGED dists
    /\ UNCHANGED <<engineVars, utilVars, reqs>>

Init ==
    /\ StoreIdle
    /\ UtilIdle
    /\ records = <<>>
    /\ agents = <<>>
    /\ strategy = "equal"
    /\ result = NoResult
    /\ called = FALSE

\* the files uploaded: up to MaxUpload rows without notes (notes are written
\* by updateRecordStatus)
UploadLists == UNION {RecordListsOf(n, {0}) : n \in 0..MaxUpload}

Upload ==
    /\ ops < MaxOps
    /\ \E data \in UploadLists, strat \in StrategyNames : uploadAndDistribute(data, strat)

Update ==
    /\ ops < MaxOps
    /\ \E id \in DistIds, user \in UserIds, recordIdx \in 0..MaxUpload,
          status \in Statuses, notes \in NoteLens :
           updateRecordStatus(id, user, recordIdx, status, notes)

Delete == ops < MaxOps /\ \E id \in DistIds : deleteDistribution(id)

SetActive ==
    /\ ops < MaxOps
    /\ \E id \in UserIds, isActive \in BOOLEAN : updateAgent(id, [isActive |-> isActive])

Next == Upload \/ Update \/ Delete \/ SetActive

Spec == Init /\ [][Next]_vars

\* ------------------------------------------------- the agents' profiles
\* the names and addresses an admin types into the agent form: those of
\* the first agent and one no agent has
NewNames == {0, 1}

NewEmails == {0, 1}

SetName ==
    /\ ops < MaxOps
    /\ \E id \in UserIds, name \in NewNames : updateAgent(id, [name |-> name])

SetEmail ==
    /\ ops < MaxOps
    /\ \E id \in UserIds, email \in NewEmails : updateAgent(id, [email |-> email])

ProfileNext == Upload \/ Delete \/ SetActive \/ SetName \/ SetEmail

ProfileSpec == Init /\ [][ProfileNext]_vars

\* ------------------------------------- the other entry points of the store
\* distributeRecords of the controller server.js mounts: the records in
\* input order, the first records.length % agents.length agents one more
distributeRecords(recs, ags) ==
    LET recordsPerAgent == Len(recs) \div Len(ags)
        remainder == Len(recs) % Len(ags)
        recordsCount(index) == recordsPerAgent + (IF index < remainder THEN 1 ELSE 0)
        recordIndex(index) == index * recordsPerAgent + Min(index, remainder)
    IN  [i \in 1..Len(ags) |->
            [agentId |-> ags[i]._id,
             agentName |-> ags[i].name,
             agentEmail |-> ags[i].email,
             records |-> AssignAll(Slice(recs, recordIndex(i - 1),
                                         recordIndex(i - 1) + recordsCount(i - 1)))]]

\* POST /api/distributions/upload of the mounted controller: the document
\* is saved, no counter is written
uploadAndDistributeNew(data) ==
    LET found == findActiveAgents(users, 1)
        distributedRecords == distributeRecords(data, found)
        free == {d \in DistIds : ~dists[d].exists}
        id == CHOOSE d \in free : \A e \in free : d <= e
    IN  /\ Served
        /\ free # {}
        /\ IF Len(data) = 0 \/ Len(found) = 0
           THEN /\ resp' = Response("uploadAndDistributeNew", 400, 0, 0, 0, "", "", 0)
                /\ UNCHANGED dists
           ELSE /\ dists' = [dists EXCEPT ![id] =
                                preSave([exists |-> TRUE,
                                         totalRecords |-> Len(data),
                                         distributionStrategy |-> "equal",
                                         agents |-> [g \in 1..Len(distributedRecords) |->
                                             [agentId |-> distributedRecords[g].agentId,
                                              agentName |-> distributedRecords[g].agentName,
                                              agentEmail |-> distributedRecords[g].agentEmail,
                                              assignedCount |-> Len(distributedRecords[g].records),
                                              records |-> distributedRecords[g].records]],
                                         summary |-> [totalAgentsAssigned |-> 0,
                                                      averageRecordsPerAgent |-> <<0, 1>>]])]
                /\ resp' = Response("uploadAndDistributeNew", 200, id, 0, 0, "", "", 0)
        /\ UNCHANGED users
        /\ UNCHANGED <<engineVars, utilVars, reqs>>

\* PUT /api/distributions/:id/records/:recordIndex of the mounted controller
updateRecordStatusNew(id, user, recordIdx, status, notes) ==
    LET distribution == dists[id]
        g == findAgentData(distribution, user)
        agentData == distribution.agents[g]
        record == agentData.records[recordIdx + 1]
    IN  /\ Served
        /\ IF ~distribution.exists
           THEN /\ resp' = Response("updateRecordStatusNew", 404, 0, 0, 0, "", "", 0)
                /\ UNCHANGED dists
           ELSE IF g = 0
           THEN /\ resp' = Response("updateRecordStatusNew", 403, 0, 0, 0, "", "", 0)
                /\ UNCHANGED dists
           ELSE IF recordIdx >= 0 /\ recordIdx < Len(agentData.records)
           THEN /\ dists' = [dists EXCEPT ![id] =
                                preSave([@ EXCEPT !.agents[g].records[recordIdx + 1] =
                                            [record EXCEPT !.status = status,
                                                           !.notes = IF notes # 0 THEN notes ELSE @]])]
                /\ resp' = Response("updateRecordStatusNew", 200, id, user, recordIdx, status,
                                    record.status, users[user].completedTasks)
           ELSE /\ resp' = Response("updateRecordStatusNew", 400, 0, 0, 0, "", "", 0)
                /\ UNCHANGED dists
        /\ UNCHANGED users
        /\ UNCHANGED <<engineVars, utilVars, reqs>>

\* DELETE /api/distributions/:id of the mounted controller
deleteDistributionNew(id) ==
    /\ Served
    /\ IF ~dists[id].exists
       THEN /\ resp' = Response("deleteDistributionNew", 404, 0, 0, 0, "", "", 0)
            /\ UNCHANGED dists
       ELSE /\ dists' = [dists EXCEPT ![id] = NoDist]
            /\ resp' = Response("deleteDistributionNew", 200, id, 0, 0, "", "", 0)
    /\ UNCHANGED users
    /\ UNCHANGED <<engineVars, utilVars, reqs>>

\* const validStatuses = ['pending', 'in-progress', 'completed', 'failed']
validStatuses == {"pending", "in-progress", "completed", "failed"}

\* PATCH /api/distributions/records/:recordId/status; the record of id
\* recordId in Distribution id stands for the ObjectId of the route
patchRecordStatus(id, user, recordId, status) ==
    LET distribution == dists[id]
        groups == distribution.agents
        \* Distribution.findOne({ 'agents.records._id': recordId, 'agents.agentId': req.user._id })
        found == /\ distribution.exists
                 /\ \E g \in 1..Len(groups) : \E k \in 1..Len(groups[g].records) :
                       groups[g].records[k].id = recordId
                 /\ \E g \in 1..Len(groups) : groups[g].agentId = user
        hits == {<<g, k>> \in (1..NumUsers) \X (1..MaxUpload) :
                    /\ g <= Len(groups)
                    /\ groups[g].agentId = user
                    /\ k <= Len(groups[g].records)
                    /\ groups[g].records[k].id = recordId}
        hit == CHOOSE h \in hits : TRUE
    IN  /\ Served
        /\ IF status \notin validStatuses
           THEN /\ resp' = Response("patchRecordStatus", 400, 0, 0, 0, "", "", 0)
                /\ UNCHANGED dists
           ELSE IF ~found \/ hits = {}
           THEN /\ resp' = Response("patchRecordStatus", 404, 0, 0, 0, "", "", 0)
                /\ UNCHANGED dists
           ELSE /\ dists' = [dists EXCEPT ![id] =
                                preSave([@ EXCEPT !.agents[hit[1]].records[hit[2]].status = status])]
                /\ resp' = Response("patchRecordStatus", 200, id, user, hit[2] - 1, status,
                                    groups[hit[1]].records[hit[2]].status,
                                    users[user].completedTasks)
        /\ UNCHANGED users
        /\ UNCHANGED <<engineVars, utilVars, reqs>>

UploadNew ==
    /\ ops < MaxOps
    /\ \E data \in UploadLists : uploadAndDistributeNew(data)

UpdateNew ==
    /\ ops < MaxOps
    /\ \E id \in DistIds, user \in UserIds, recordIdx \in 0..MaxUpload,
          status \in Statuses, notes \in NoteLens :
           updateRecordStatusNew(id, user, recordIdx, status, notes)

DeleteNew == ops < MaxOps /\ \E id \in DistIds : deleteDistributionNew(id)

PatchStatus ==
    /\ ops < MaxOps
    /\ \E id \in DistIds, user \in UserIds, recordId \in 1..MaxUpload,
          status \in Statuses \cup {"archived"} :
           patchRecordStatus(id, user, recordId, status)

EntryNext == Upload \/ UploadNew \/ UpdateNew \/ DeleteNew \/ PatchStatus

EntrySpec == Init /\ [][EntryNext]_vars

\* ------------------------------------------- the store, await by await
\* updateRecordStatus and deleteDistribution hold no lock and open no
\* transaction: between two awaits of one request any other request may run.
ReqIds == 1..NumReqs

\* the statuses clients send while their requests overlap
ConcStatuses == {"pending", "completed"}

\* a request on its way to the handler's first await
Sent(op, id, user, recordIdx, status, notes) ==
    [op |-> op, pc |-> "find", id |-> id, user |-> user, recordIndex |-> recordIdx,
     status |-> status, notes |-> notes, distribution |-> NoDist, g |-> 0,
     oldStatus |-> "", code |-> 0]

\* res.status(code).json(...)
Finished(req, code) == [req EXCEPT !.pc = "done", !.code = code]

\* save that writes the whole document as the request holds it
saveWholeDocument(stored, req) ==
    [req.distribution EXCEPT !.agents[req.g].records[req.recordIndex + 1] =
        updateRecord(@, req.status, req.notes)]

\* await distribution.save(): a $set of the paths the handler modified on
\* the document it loaded (an assignment of the value loaded modifies nothing,
\* new Date() always does)
save(stored, req) ==
    LET loaded == req.distribution.agents[req.g].records[req.recordIndex + 1]
        local == updateRecord(loaded, req.status, req.notes)
    IN  [stored EXCEPT !.agents[req.g].records[req.recordIndex + 1] =
            [@ EXCEPT !.status = IF local.status # loaded.status THEN local.status ELSE @,
                      !.notes = IF local.notes # loaded.notes THEN local.notes ELSE @,
                      !.completedAt = IF req.status = "completed" THEN TRUE ELSE @]]

\* the handler has a $inc of completedTasks to await after the save
CountDue(req) ==
    \/ req.oldStatus # "completed" /\ req.status = "completed"
    \/ req.oldStatus = "completed" /\ req.status # "completed"

\* const distribution = await Distribution.findById(req.params.id), then the
\* synchronous checks and assignments up to the save
updateFind(r) ==
    LET req == reqs[r]
        distribution == dists[req.id]
        g == findAgentData(distribution, req.user)
        agentData == distribution.agents[g]
    IN  /\ req.op = "updateRecordStatus" /\ req.pc = "find"
        /\ reqs' = [reqs EXCEPT ![r] =
              IF ~distribution.exists THEN Finished(req, 404)
              ELSE IF g = 0 THEN Finished(req, 403)
              ELSE IF req.recordIndex < 0 \/ req.recordIndex >= Len(agentData.records)
              THEN Finished(req, 400)
              ELSE [req EXCEPT !.pc = "save",
                               !.distribution = distribution,
                               !.g = g,
                               !.oldStatus = agentData.records[req.recordIndex + 1].status]]
        /\ UNCHANGED <<users, dists, resp, ops>>
        /\ UNCHANGED <<engineVars, utilVars>>

\* await distribution.save(); without a counter change due the response follows
updateSave(r) ==
    LET req == reqs[r]
    IN  /\ req.op = "updateRecordStatus" /\ req.pc = "save"
        /\ IF ~dists[req.id].exists
           THEN \* no matching document: save rejects, the catch answers 500
                /\ reqs' = [reqs EXCEPT ![r] = Finished(req, 500)]
                /\ UNCHANGED dists
           ELSE /\ dists' = [dists EXCEPT ![req.id] = save(@, req)]
                /\ reqs' = [reqs EXCEPT ![r] =
                              IF CountDue(req) THEN [req EXCEPT !.pc = "count"]
                              ELSE Finished(req, 200)]
        /\ UNCHANGED <<users, resp, ops>>
        /\ UNCHANGED <<engineVars, utilVars>>

\* await User.findByIdAndUpdate(req.user._id, { $inc: { completedTasks: +-1 } })
updateCount(r) ==
    LET req == reqs[r]
    IN  /\ req.op = "updateRecordStatus" /\ req.pc = "count"
        /\ users' = updateTaskCounts(users, req.user, req.oldStatus, req.status)
        /\ reqs' = [reqs EXCEPT ![r] = Finished(req, 200)]
        /\ UNCHANGED <<dists, resp, ops>>
        /\ UNCHANGED <<engineVars, utilVars>>

\* const distribution = await Distribution.findById(req.params.id)
deleteFind(r) ==
    LET req == reqs[r]
        distribution == dists[req.id]
    IN  /\ req.op = "deleteDistribution" /\ req.pc = "find"
        /\ reqs' = [reqs EXCEPT ![r] =
              IF ~distribution.exists THEN Finished(req, 404)
              ELSE [req EXCEPT !.pc = "dec", !.distribution = distribution, !.g = 1]]
        /\ UNCHANGED <<users, dists, resp, ops>>
        /\ UNCHANGED <<engineVars, utilVars>>

\* one turn of for (const agent of distribution.agents) await User.findByIdAndUpdate(...)
deleteDec(r) ==
    LET req == reqs[r]
        agent == req.distribution.agents[req.g]
    IN  /\ req.op = "deleteDistribution" /\ req.pc = "dec"
        /\ users' = decCounts(users, <<agent>>)
        /\ reqs' = [reqs EXCEPT ![r] =
              IF req.g = Len(req.distribution.agents)
              THEN [req EXCEPT !.pc = "remove"]
              ELSE [req EXCEPT !.g = @ + 1]]
        /\ UNCHANGED <<dists, resp, ops>>
        /\ UNCHANGED <<engineVars, utilVars>>

\* await Distribution.findByIdAndDelete(req.params.id)
deleteRemove(r) ==
    LET req == reqs[r]
    IN  /\ req.op = "deleteDistribution" /\ req.pc = "remove"
        /\ dists' = [dists EXCEPT ![req.id] = NoDist]
        /\ reqs' = [reqs EXCEPT ![r] = Finished(req, 200)]
        /\ UNCHANGED <<users, resp, ops>>
        /\ UNCHANGED <<engineVars, utilVars>>

\* a client sends the next request, on the Distribution of ConcInit
Send(r) ==
    /\ reqs[r].pc = "idle"
    /\ \A q \in ReqIds : q < r => reqs[q].pc # "idle"
    /\ \/ \E user \in UserIds, recordIdx \in 0..(MaxUpload - 1), status \in ConcStatuses :
             reqs' = [reqs EXCEPT ![r] =
                         Sent("updateRecordStatus", 1, user, recordIdx, status, 0)]
       \/ reqs' = [reqs EXCEPT ![r] = Sent("deleteDistribution", 1, 0, 0, "", 0)]
    /\ UNCHANGED <<users, dists, resp, ops>>
    /\ UNCHANGED <<engineVars, utilVars>>

\* the store after one upload of MaxUpload rows and no other request: the
\* file split equally among the agents that were active
ConcInit ==
    /\ \E active \in (SUBSET UserIds) \ {{}}, data \in RecordListsOf(MaxUpload, {0}) :
         LET us == [u \in UserIds |->
                       NewUser(u, u \in active)]
             distributionResult == distribute(data, findActiveAgents(us, 1), "equal")
             groups == distributionResult.agents
         IN  /\ users = incAssigned(us, groups)
             /\ dists = [d \in DistIds |->
                           IF d = 1
                           THEN preSave([exists |-> TRUE,
                                         totalRecords |-> Len(data),
                                         distributionStrategy |-> "equal",
                                         agents |-> groups,
                                         summary |-> schemaSummary(distributionResult.summary)])
                           ELSE NoDist]
    /\ resp = NoResp
    /\ ops = 0
    /\ reqs = [r \in ReqIds |-> NoReq]
    /\ UtilIdle
    /\ records = <<>>
    /\ agents = <<>>
    /\ strategy = "equal"
    /\ result = NoResult
    /\ called = FALSE

SendRequest == \E r \in ReqIds : Send(r)

UpdateFind == \E r \in ReqIds : updateFind(r)

UpdateSave == \E r \in ReqIds : updateSave(r)

UpdateCount == \E r \in ReqIds : updateCount(r)

DeleteFind == \E r \in ReqIds : deleteFind(r)

DeleteDec == \E r \in ReqIds : deleteDec(r)

DeleteRemove == \E r \in ReqIds : deleteRemove(r)

ConcNext ==
    \/ SendRequest
    \/ UpdateFind \/ UpdateSave \/ UpdateCount
    \/ DeleteFind \/ DeleteDec \/ DeleteRemove

ConcSpec == ConcInit /\ [][ConcNext]_vars

\* ----------------------------------------- database calls that may reject
\* await distribution.save() rejects: nothing is written, the error handler
\* answers 500
saveRejects(r) ==
    LET req == reqs[r]
    IN  /\ req.op = "updateRecordStatus" /\ req.pc = "save"
        /\ reqs' = [reqs EXCEPT ![r] = Finished(req, 500)]
        /\ UNCHANGED <<users, dists, resp, ops>>
        /\ UNCHANGED <<engineVars, utilVars>>

\* await User.findByIdAndUpdate(...) rejects after the save went through:
\* the handler has no catch that takes the save back, the error handler
\* answers 500
countRejects(r) ==
    LET req == reqs[r]
    IN  /\ req.op = "updateRecordStatus" /\ req.pc = "count"
        /\ reqs' = [reqs EXCEPT ![r] = Finished(req, 500)]
        /\ UNCHANGED <<users, dists, resp, ops>>
        /\ UNCHANGED <<engineVars, utilVars>>

SaveRejects == \E r \in ReqIds : saveRejects(r)

CountRejects == \E r \in ReqIds : countRejects(r)

FaultNext == ConcNext \/ SaveRejects \/ CountRejects

FaultSpec == ConcInit /\ [][FaultNext]_vars

\* ------------------------------------- uploadAndDistribute, await by await
\* an upload on its way to the handler's first await
SentUpload(data, strat) ==
    [op |-> "uploadAndDistribute", pc |-> "find", data |-> data, strategy |-> strat,
     distributionResult |-> NoResult, id |-> 0, g |-> 0, code |-> 0]

\* processFile, await User.find({ role: 'agent', isActive: true }) and
\* distributionEngine.distribute
uploadFind(r) ==
    LET req == reqs[r]
        found == findActiveAgents(users, 1)
    IN  /\ req.op = "uploadAndDistribute" /\ req.pc = "find"
        /\ reqs' = [reqs EXCEPT ![r] =
              IF Len(req.data) = 0 THEN Finished(req, 500)
              ELSE IF Len(found) = 0 THEN Finished(req, 400)
              ELSE [req EXCEPT !.pc = "create",
                               !.distributionResult = distribute(req.data, found, req.strategy)]]
        /\ UNCHANGED <<users, dists, resp, ops>>
        /\ UNCHANGED <<engineVars, utilVars>>

\* const distribution = await Distribution.create({...})
uploadCreate(r) ==
    LET req == reqs[r]
        free == {d \in DistIds : ~dists[d].exists}
        id == CHOOSE d \in free : \A e \in free : d <= e
    IN  /\ req.op = "uploadAndDistribute" /\ req.pc = "create"
        /\ free # {}
        /\ dists' = [dists EXCEPT ![id] =
                        preSave([exists |-> TRUE,
                                 totalRecords |-> Len(req.data),
                                 distributionStrategy |-> req.strategy,
                                 agents |-> req.distributionResult.agents,
                                 summary |-> schemaSummary(req.distributionResult.summary)])]
        /\ reqs' = [reqs EXCEPT ![r] = [req EXCEPT !.pc = "inc", !.id = id, !.g = 1]]
        /\ UNCHANGED <<users, resp, ops>>
        /\ UNCHANGED <<engineVars, utilVars>>

\* one turn of for (const agent of distributionResult.agents)
\*   await User.findByIdAndUpdate(agent.agentId, { $inc: { assignedTasks: agent.assignedCount } })
uploadInc(r) ==
    LET req == reqs[r]
        agent == req.distributionResult.agents[req.g]
    IN  /\ req.op = "uploadAndDistribute" /\ req.pc = "inc"
        /\ users' = incAssigned(users, <<agent>>)
        /\ reqs' = [reqs EXCEPT ![r] =
              IF req.g = Len(req.distributionResult.agents)
              THEN Finished(req, 201)
              ELSE [req EXCEPT !.g = @ + 1]]
        /\ UNCHANGED <<dists, resp, ops>>
        /\ UNCHANGED <<engineVars, utilVars>>

\* await Distribution.create rejects: nothing is stored, the catch rethrows
createRejects(r) ==
    LET req == reqs[r]
    IN  /\ req.op = "uploadAndDistribute" /\ req.pc = "create"
        /\ reqs' = [reqs EXCEPT ![r] = Finished(req, 500)]
        /\ UNCHANGED <<users, dists, resp, ops>>
        /\ UNCHANGED <<engineVars, utilVars>>

\* await User.findByIdAndUpdate rejects in the loop: the catch removes the
\* uploaded file and rethrows, the Distribution and the increments made so
\* far stay
incRejects(r) ==
    LET req == reqs[r]
    IN  /\ req.op = "uploadAndDistribute" /\ req.pc = "inc"
        /\ reqs' = [reqs EXCEPT ![r] = Finished(req, 500)]
        /\ UNCHANGED <<users, dists, resp, ops>>
        /\ UNCHANGED <<engineVars, utilVars>>

\* a client sends the next upload
SendUpload(r) ==
    /\ reqs[r].pc = "idle"
    /\ \A q \in ReqIds : q < r => reqs[q].pc # "idle"
    /\ \E data \in UploadLists, strat \in StrategyNames :
          reqs' = [reqs EXCEPT ![r] = SentUpload(data, strat)]
    /\ UNCHANGED <<users, dists, resp, ops>>
    /\ UNCHANGED <<engineVars, utilVars>>

\* an empty store whose agents are active or were deactivated
CreateInit ==
    /\ \E active \in SUBSET UserIds :
          users = [u \in UserIds |->
                      NewUser(u, u \in active)]
    /\ dists = [d \in DistIds |-> NoDist]
    /\ resp = NoResp
    /\ ops = 0
    /\ reqs = [r \in ReqIds |-> NoReq]
    /\ UtilIdle
    /\ records = <<>>
    /\ agents = <<>>
    /\ strategy = "equal"
    /\ result = NoResult
    /\ called = FALSE

SendUploads == \E r \in ReqIds : SendUpload(r)

UploadFind == \E r \in ReqIds : uploadFind(r)

UploadCreate == \E r \in ReqIds : uploadCreate(r)

UploadInc == \E r \in ReqIds : uploadInc(r)

CreateRejects == \E r \in ReqIds : createRejects(r)

IncRejects == \E r \in ReqIds : incRejects(r)

CreateNext ==
    \/ SendUploads
    \/ UploadFind \/ UploadCreate \/ UploadInc
    \/ CreateRejects \/ IncRejects

CreateSpec == CreateInit /\ [][CreateNext]_vars

\* ------------------------------------------------- claims on the engine
ValidInput == Len(records) > 0 /\ \E i \in 1..Len(agents) : agents[i].isActive

ActiveAgents == SelectSeq(agents, IsActive)

Counts(groups) == [i \in 1..Len(groups) |-> groups[i].assignedCount]

Sizes(groups) == [i \in 1..Len(groups) |-> Len(groups[i].records)]

AllRecords(groups) == Flatten([i \in 1..Len(groups) |-> groups[i].records])

\* C1: for a non-empty record list, at least one active agent and any of
\* the three strategies, the groups returned by distribute hold every input
\* record exactly once: none is missing and none appears twice.
C1_Partition ==
    (called /\ ValidInput /\ strategy \in StrategyNames) =>
        /\ result.ok
        /\ LET out == AllRecords(result.agents)
           IN  /\ Len(out) = Len(records)
               /\ \A i \in 1..Len(records) :
                    Cardinality({k \in 1..Len(out) :
                        out[k].id = records[i].id /\ out[k].notes = records[i].notes}) = 1

C1_Witness ==
    /\ called /\ result.ok /\ strategy = "weighted"
    /\ Len(records) = 3
    /\ Len(result.agents) = 2
    /\ Sizes(result.agents) = <<2, 1>>

\* C2: in the output of distribute every group's assignedCount equals the
\* length of its records list, so the counts add up to the number of input
\* records.
C2_AssignedCountIsLength ==
    (called /\ result.ok) =>
        /\ \A g \in 1..Len(result.agents) :
              result.agents[g].assignedCount = Len(result.agents[g].records)
        /\ SumSeq(Counts(result.agents)) = Len(records)

\* C3: under equal, with n = floor(L/m) and r = L mod m, the i-th active
\* agent (0-based, input order) gets n+1 records if i < r and n otherwise,
\* as the next contiguous slice of the input; max - min <= 1; 10 records
\* over 3 agents give sizes 4, 3, 3.
C3_EqualShares ==
    (called /\ ValidInput /\ strategy = "equal") =>
        LET L == Len(records)
            m == Len(ActiveAgents)
            n == L \div m
            r == L % m
            groups == result.agents
        IN  /\ result.ok
            /\ Len(groups) = m
            /\ \A i \in 0..(m - 1) :
                 LET size == IF i < r THEN n + 1 ELSE n
                     first == i * n + Min(i, r)
                 IN  /\ groups[i + 1].agentId = ActiveAgents[i + 1]._id
                     /\ Len(groups[i + 1].records) = size
                     /\ groups[i + 1].assignedCount = size
                     /\ \A k \in 1..size :
                          /\ groups[i + 1].records[k].id = records[first + k].id
                          /\ groups[i + 1].records[k].notes = records[first + k].notes
            /\ \A i, j \in 1..m : Len(groups[i].records) - Len(groups[j].records) <= 1
            /\ (L = 10 /\ m = 3) => Sizes(groups) = <<4, 3, 3>>

C3_Witness ==
    /\ called /\ result.ok /\ strategy = "equal"
    /\ Len(records) = 10
    /\ Len(ActiveAgents) = 3
    /\ Sizes(result.agents) = <<4, 3, 3>>

\* C4: distribute fails and returns no plan when the record list is empty,
\* the agent list is empty, or no agent is active; no group is produced.
C4_FailsWithoutPlan ==
    (called /\ ~ValidInput) =>
        /\ ~result.ok
        /\ result.error # ""
        /\ result.agents = <<>>

C4_Witness ==
    /\ called /\ ~result.ok
    /\ Len(records) > 0
    /\ Len(agents) = 2
    /\ \A i \in 1..Len(agents) : ~agents[i].isActive
    /\ result.error = "No active agents available"

\* C5: for a valid input the output has exactly one group per active agent
\* (also for one that gets no record) and none for an inactive agent.
C5_OneGroupPerActiveAgent ==
    (called /\ ValidInput) =>
        /\ result.ok
        /\ Len(result.agents) = Len(ActiveAgents)
        /\ \A i \in 1..Len(agents) :
             Cardinality({g \in 1..Len(result.agents) : result.agents[g].agentId = agents[i]._id})
                 = IF agents[i].isActive THEN 1 ELSE 0

C5_Witness ==
    /\ called /\ result.ok
    /\ \E i \in 1..Len(agents) : ~agents[i].isActive
    /\ \E g \in 1..Len(result.agents) : result.agents[g].records = <<>>

\* -------------------------------------------------- claims on the store
\* the groups of user u in Distribution d, as positions
OwnGroups(ds, d, u) == {g \in 1..Len(ds[d].agents) : ds[d].agents[g].agentId = u}

UpdateServed == resp'.op = "updateRecordStatus" /\ resp'.code = 200

\* C6: updateRecordStatus changes the caller's completedTasks by +1 when the
\* record goes from a status other than completed to completed, by -1 when
\* it goes from completed to another status, and by 0 otherwise; a record
\* taken pending -> completed -> failed leaves completedTasks where it was.
C6_CompletedDelta ==
    [][UpdateServed =>
        LET d == resp'.id
            u == resp'.user
            g == CHOOSE g \in OwnGroups(dists, d, u) : TRUE
            old == dists[d].agents[g].records[resp'.recordIndex + 1].status
            new == dists'[d].agents[g].records[resp'.recordIndex + 1].status
            delta == IF old # "completed" /\ new = "completed" THEN 1
                     ELSE IF old = "completed" /\ new # "completed" THEN -1
                     ELSE 0
        IN  /\ new = resp'.status
            /\ users'[u].completedTasks = users[u].completedTasks + delta
            /\ ( /\ resp.op = "updateRecordStatus" /\ resp.code = 200
                 /\ resp.id = d /\ resp.user = u /\ resp.recordIndex = resp'.recordIndex
                 /\ resp.oldStatus = "pending" /\ resp.status = "completed"
                 /\ new = "failed" )
               => users'[u].completedTasks = resp.count]_vars

C6_Witness ==
    /\ resp.op = "updateRecordStatus" /\ resp.code = 200
    /\ resp.oldStatus = "completed" /\ resp.status = "failed"
    /\ resp.count = 1
    /\ users[resp.user].completedTasks = 0

\* C7: in every reachable state a record's completedAt is set exactly when
\* its status is completed: set on the way into completed, cleared on the
\* way out.
C7_CompletedAtIffCompleted ==
    \A d \in DistIds : dists[d].exists =>
        \A g \in 1..Len(dists[d].agents) :
            \A k \in 1..Len(dists[d].agents[g].records) :
                LET record == dists[d].agents[g].records[k]
                IN  record.completedAt <=> (record.status = "completed")

\* C8: updateRecordStatus changes nothing when it fails; it succeeds only on
\* an existing Distribution, for a caller that owns a group in it and a
\* record of that group, and then it changes that one record and no counter
\* of another agent: no record of another agent's group ever changes.
C8_OnlyOwnRecord ==
    [][(resp'.op = "updateRecordStatus" /\ ops' # ops) =>
        IF resp'.code # 200
        THEN users' = users /\ dists' = dists
        ELSE LET d == resp'.id
                 u == resp'.user
                 i == resp'.recordIndex + 1
             IN  /\ dists[d].exists /\ dists'[d].exists
                 /\ OwnGroups(dists, d, u) # {}
                 /\ \A e \in DistIds \ {d} : dists'[e] = dists[e]
                 /\ Len(dists'[d].agents) = Len(dists[d].agents)
                 /\ \A g \in 1..Len(dists[d].agents) :
                      LET old == dists[d].agents[g]
                          new == dists'[d].agents[g]
                      IN  IF new = old THEN TRUE
                          ELSE /\ old.agentId = u /\ new.agentId = u
                               /\ new.assignedCount = old.assignedCount
                               /\ i <= Len(old.records)
                               /\ Len(new.records) = Len(old.records)
                               /\ \A k \in 1..Len(old.records) :
                                    k # i => new.records[k] = old.records[k]
                 /\ \A v \in UserIds \ {u} : users'[v] = users[v]]_vars

C8_Witness ==
    /\ resp.op = "updateRecordStatus" /\ resp.code = 403
    /\ \E d \in DistIds :
         /\ dists[d].exists
         /\ \E u \in UserIds : OwnGroups(dists, d, u) = {}
         /\ \E g \in 1..Len(dists[d].agents) : Len(dists[d].agents[g].records) > 0

CompletedIn(group) ==
    SumSeq([k \in 1..Len(group.records) |->
               IF group.records[k].status = "completed" THEN 1 ELSE 0])

\* what Distribution d adds to the assignedTasks of user u
AssignedShare(ds, d, u) ==
    IF ~ds[d].exists THEN 0
    ELSE SumSeq([g \in 1..Len(ds[d].agents) |->
                    IF ds[d].agents[g].agentId = u THEN ds[d].agents[g].assignedCount ELSE 0])

\* what Distribution d adds to the completedTasks of user u
CompletedShare(ds, d, u) ==
    IF ~ds[d].exists THEN 0
    ELSE SumSeq([g \in 1..Len(ds[d].agents) |->
                    IF ds[d].agents[g].agentId = u THEN CompletedIn(ds[d].agents[g]) ELSE 0])

\* C9: deleteDistribution on an existing Distribution takes each group's
\* assignedCount off its agent's assignedTasks and the group's completed
\* records off its completedTasks, and removes the Distribution; on an id
\* that does not exist it fails and changes no counter.
C9_DeleteDecrements ==
    [][(resp'.op = "deleteDistribution" /\ ops' # ops) =>
        IF resp'.code = 200
        THEN LET d == resp'.id
             IN  /\ dists[d].exists /\ ~dists'[d].exists
                 /\ \A e \in DistIds \ {d} : dists'[e] = dists[e]
                 /\ \A u \in UserIds :
                      /\ users'[u].assignedTasks =
                             users[u].assignedTasks - AssignedShare(dists, d, u)
                      /\ users'[u].completedTasks =
                             users[u].completedTasks - CompletedShare(dists, d, u)
                      /\ users'[u].isActive = users[u].isActive
        ELSE resp'.code = 404 /\ users' = users /\ dists' = dists]_vars

C9_Witness ==
    /\ resp.op = "deleteDistribution" /\ resp.code = 200
    /\ resp.count > 0
    /\ \A d \in DistIds : ~dists[d].exists
    /\ \A u \in UserIds : users[u].assignedTasks = 0 /\ users[u].completedTasks = 0

\* C10: from counters of zero, after any sequence of requests served one
\* after the other, each agent's assignedTasks is the sum of assignedCount
\* of its groups over the existing Distributions and its completedTasks is
\* the number of its completed records in them; neither is negative and
\* completedTasks <= assignedTasks.
C10_CountersMatchStore ==
    \A u \in UserIds :
        /\ users[u].assignedTasks =
               SumSeq([d \in DistIds |-> AssignedShare(dists, d, u)])
        /\ users[u].completedTasks =
               SumSeq([d \in DistIds |-> CompletedShare(dists, d, u)])
        /\ users[u].assignedTasks >= 0
        /\ users[u].completedTasks >= 0
        /\ users[u].completedTasks <= users[u].assignedTasks

C10_Witness ==
    \E u \in UserIds :
        /\ \A d \in DistIds : dists[d].exists /\ AssignedShare(dists, d, u) > 0
        /\ users[u].completedTasks = 1
        /\ users[u].assignedTasks >= 2

\* ---------------------------------------- claims on the concurrent store
\* every request sent has been answered
AllAnswered == \A r \in ReqIds : reqs[r].pc \in {"idle", "done"}

\* the requests sent are exactly those of rs
SentAre(rs) == \A r \in ReqIds : (reqs[r].pc # "idle") <=> (r \in rs)

\* the record a request names, as stored
StoredRecord(req) == dists[req.id].agents[req.g].records[req.recordIndex + 1]

\* C11: under any interleaving of concurrent updateRecordStatus requests,
\* two on the same record that both read the old status included, once all
\* of them are answered every agent's completedTasks is the number of its
\* records stored as completed.
C11_ConcurrentUpdatesCounted ==
    (AllAnswered /\ \A r \in ReqIds : reqs[r].op \in {"", "updateRecordStatus"}) =>
        \A u \in UserIds : users[u].completedTasks = CompletedShare(dists, 1, u)

\* C12: two concurrent updates of one agent on two different records of a
\* Distribution both land: each record ends with the status requested for
\* it and completedTasks counts both, two pending -> completed updates
\* raising it by exactly 2.
C12_DifferentRecordsBothLand ==
    \A r, q \in ReqIds :
        ( /\ r # q /\ SentAre({r, q}) /\ AllAnswered
          /\ reqs[r].op = "updateRecordStatus" /\ reqs[q].op = "updateRecordStatus"
          /\ reqs[r].code = 200 /\ reqs[q].code = 200
          /\ reqs[r].user = reqs[q].user
          /\ reqs[r].recordIndex # reqs[q].recordIndex ) =>
            /\ StoredRecord(reqs[r]).status = reqs[r].status
            /\ StoredRecord(reqs[q]).status = reqs[q].status
            /\ users[reqs[r].user].completedTasks = CompletedShare(dists, 1, reqs[r].user)
            /\ (reqs[r].status = "completed" /\ reqs[q].status = "completed") =>
                   users[reqs[r].user].completedTasks = 2

C12_Witness ==
    \E r, q \in ReqIds :
        /\ r # q /\ SentAre({r, q}) /\ AllAnswered
        /\ reqs[r].code = 200 /\ reqs[q].code = 200
        /\ reqs[r].user = reqs[q].user
        /\ reqs[r].recordIndex # reqs[q].recordIndex
        /\ reqs[r].distribution = reqs[q].distribution
        /\ reqs[r].status = "completed" /\ reqs[q].status = "completed"
        /\ users[reqs[r].user].completedTasks = 2

\* C13: under every interleaving of one deleteDistribution and one
\* updateRecordStatus on the same Distribution, once both are answered the
\* Distribution is gone and no agent's assignedTasks or completedTasks
\* keeps a contribution of it.
C13_DeleteExcludesUpdate ==
    \A r, q \in ReqIds :
        ( /\ r # q /\ SentAre({r, q}) /\ AllAnswered
          /\ reqs[r].op = "deleteDistribution" /\ reqs[r].code = 200
          /\ reqs[q].op = "updateRecordStatus" ) =>
            /\ ~dists[1].exists
            /\ \A u \in UserIds :
                 users[u].assignedTasks = 0 /\ users[u].completedTasks = 0

\* C14: a status update is both-or-neither: when updateRecordStatus, alone
\* on the store, fails at the save or at the counter change, the stored
\* Distribution is the one the request loaded and the caller's
\* completedTasks is what it was.
C14_BothOrNeither ==
    \A r \in ReqIds :
        ( /\ SentAre({r})
          /\ reqs[r].op = "updateRecordStatus"
          /\ reqs[r].pc = "done" /\ reqs[r].code = 500 ) =>
            /\ dists[reqs[r].id] = reqs[r].distribution
            /\ users[reqs[r].user].completedTasks = 0

\* ------------------------------------------- claims on redistributeTasks
IsRedistributed(record) == "redistributed" \in DOMAIN record /\ record.redistributed

\* C15: redistributeTasks orders the groups ascending by live load (the
\* number of their pending and in-progress records) and hands the failed
\* records out one at a time round-robin from the least loaded group: the
\* k-th failed record (from 0) goes to the group at position k mod m of that
\* order, with status pending and redistributed = true.
C15_RoundRobinFromLeastLoaded ==
    [][ (Len(failedTasks) > 0 /\ Len(originalDistribution.agents) > 0) =>
          LET orig == originalDistribution.agents
              m == Len(orig)
              out == redistribution'.agents
              origOf(j) == orig[CHOOSE i \in 1..m : orig[i].agentId = out[j].agentId]
          IN  /\ redistribution'.ok
              /\ Len(out) = m
              /\ {out[j].agentId : j \in 1..m} = {orig[i].agentId : i \in 1..m}
              /\ \A j \in 1..(m - 1) : currentLoad(origOf(j)) <= currentLoad(origOf(j + 1))
              /\ \A j \in 1..m :
                   /\ Len(out[j].records) = Len(origOf(j).records) +
                          Cardinality({k \in 0..(Len(failedTasks) - 1) : k % m = j - 1})
                   /\ \A p \in 1..Len(origOf(j).records) :
                        out[j].records[p] = origOf(j).records[p]
              /\ \A k \in 0..(Len(failedTasks) - 1) :
                   LET j == (k % m) + 1
                       moved == out[j].records[Len(origOf(j).records) + (k \div m) + 1]
                   IN  /\ moved.id = failedTasks[k + 1].id
                       /\ moved.status = "pending"
                       /\ IsRedistributed(moved)
      ]_vars

C15_Witness ==
    /\ called /\ redistribution.ok
    /\ Len(failedTasks) = 3
    /\ Len(redistribution.agents) = 2
    /\ redistribution.agents[1].agentId = 2
    /\ LET first == redistribution.agents[1].records
       IN  /\ Len(first) >= 2
           /\ IsRedistributed(first[Len(first)])
           /\ IsRedistributed(first[Len(first) - 1])
    /\ IsRedistributed(redistribution.agents[2].records[Len(redistribution.agents[2].records)])

\* C16: with three groups of live loads 5, 1 and 3 and two failed records,
\* the first failed record goes to the load-1 group and the second to the
\* group whose live load is then the lowest (the load-3 group against the
\* load-1 group's updated load of 2), ties going to the earlier group of the
\* original.
C16_SecondToLeastLoadedThen ==
    [][ (originalDistribution = ScenarioDistribution /\ failedTasks = ScenarioFailed) =>
          LET orig == originalDistribution.agents
              out == redistribution'.agents
              Holds(i, task) ==
                  \E j \in 1..Len(out) :
                      /\ out[j].agentId = orig[i].agentId
                      /\ \E p \in 1..Len(out[j].records) :
                           /\ out[j].records[p].id = task.id
                           /\ IsRedistributed(out[j].records[p])
              Least(load) ==
                  CHOOSE i \in 1..Len(orig) :
                      \A h \in 1..Len(orig) :
                          load[i] < load[h] \/ (load[i] = load[h] /\ i <= h)
              loadAtFirst == [i \in 1..Len(orig) |-> currentLoad(orig[i])]
              first == Least(loadAtFirst)
              loadAtSecond == [loadAtFirst EXCEPT ![first] = @ + 1]
          IN  /\ loadAtFirst[first] = 1
              /\ Holds(first, failedTasks[1])
              /\ Holds(Least(loadAtSecond), failedTasks[2])
      ]_vars

\* ------------------------------------ claims on the weighted strategy
\* C17: weightedDistribution takes the agents in descending weight order
\* and gives each a group of exactly round(totalRecords * weight /
\* totalWeight) records, taken from the front of the remaining list in that
\* order; only the first agent's group also gets the records left over after
\* rounding.
C17_WeightedShares ==
    (called /\ ValidInput /\ strategy = "weighted") =>
        LET ws == calculateAgentWeights(ActiveAgents)
            totalWeight == SumWeights(ws)
            share == [i \in 1..Len(ws) |->
                         RatRound(RatMul(<<Len(records), 1>>,
                                         RatDiv(ws[i].weight, totalWeight)))]
            offset == [i \in 1..Len(ws) |-> SumSeq(SubSeq(share, 1, i - 1))]
            leftover == IF SumSeq(share) < Len(records)
                        THEN Len(records) - SumSeq(share) ELSE 0
            out == result.agents
        IN  /\ Len(out) = Len(ws)
            /\ \A i \in 1..(Len(ws) - 1) : RatLeq(ws[i + 1].weight, ws[i].weight)
            /\ \A i \in 1..Len(ws) :
                 /\ out[i].agentId = ws[i].agentId
                 /\ Len(out[i].records) = share[i] + (IF i = 1 THEN leftover ELSE 0)
                 /\ \A p \in 1..share[i] :
                      out[i].records[p].id = records[offset[i] + p].id
            /\ \A q \in 1..leftover :
                 out[1].records[share[1] + q].id = records[SumSeq(share) + q].id

\* C18: for integer counters 0 <= completedTasks <= assignedTasks the weight
\* calculateAgentWeights gives an agent is at least 0.1, also for an agent
\* with 50 or more pending tasks and a completion rate of 0.
C18_WeightAtLeastTenth ==
    called =>
        /\ Len(weightList) = Len(agents)
        /\ \A i \in 1..Len(weightList) :
             /\ weightList[i].weight[2] > 0
             /\ RatLeq(<<1, 10>>, weightList[i].weight)

C18_Witness ==
    /\ called
    /\ agents[1].assignedTasks - agents[1].completedTasks >= 50
    /\ agents[1].completedTasks = 0
    /\ weightList[1].weight = <<1, 10>>

\* --------------------------------------------- claims on the summary
\* C19: for the per-agent counts of any strategy on a non-empty record list
\* with an active agent, the fairnessScore of the summary is a number in
\* [0, 1], and it is 1 whenever exactly one agent takes part.  (The score is
\* 1 - sqrt(shortfallSquared).)
C19_FairnessInUnitInterval ==
    (called /\ ValidInput) =>
        LET score == result.summary.fairnessScore
        IN  /\ ~score.nan
            /\ score.shortfallSquared[2] > 0
            /\ RatLeq(<<0, 1>>, score.shortfallSquared)
            /\ RatLeq(score.shortfallSquared, <<1, 1>>)
            /\ Len(result.agents) = 1 => score.shortfallSquared = <<0, 1>>

C19_Witness ==
    /\ called /\ ValidInput
    /\ Len(result.agents) = 3
    /\ Len(records) = 1
    /\ result.summary.fairnessScore.shortfallSquared = <<1, 1>>

\* ------------------------------------ claims on the priority strategy
\* the agent a group was made for
AgentOf(group) == agents[CHOOSE i \in 1..Len(agents) : agents[i]._id = group.agentId]

\* C20: priorityDistribution with m active agents gives the agent at rank k
\* (from 0, best performance first) exactly the records at positions k,
\* k + m, k + 2m, ... of the complexity-sorted list: the groups differ in
\* size by at most one and a lower-ranked agent never has more records than
\* a higher-ranked one.
C20_PriorityRoundRobin ==
    (called /\ ValidInput /\ strategy = "priority") =>
        LET out == result.agents
            m == Len(out)
            total == Len(records)
        IN  /\ m = Len(ActiveAgents)
            /\ \A i \in 1..(total - 1) : records[i].notes >= records[i + 1].notes
            /\ \A k \in 1..(m - 1) :
                 RatLeq(calculateAgentPerformance(AgentOf(out[k + 1])),
                        calculateAgentPerformance(AgentOf(out[k])))
            /\ \A k \in 1..m :
                 /\ Len(out[k].records) =
                        Cardinality({p \in 0..(total - 1) : p % m = k - 1})
                 /\ \A t \in 1..Len(out[k].records) :
                      /\ out[k].records[t].id = records[(k - 1) + (t - 1) * m + 1].id
                      /\ out[k].records[t].notes = records[(k - 1) + (t - 1) * m + 1].notes
            /\ \A k, h \in 1..m :
                 /\ Len(out[k].records) - Len(out[h].records) <= 1
                 /\ k < h => Len(out[k].records) >= Len(out[h].records)

C20_Witness ==
    /\ called /\ strategy = "priority" /\ result.ok
    /\ Len(result.agents) = 2
    /\ result.agents[1].agentId = 2
    /\ Len(result.agents[1].records) = 2
    /\ Len(result.agents[2].records) = 1
    /\ records[1].notes = 1 /\ records[3].notes = 0
    /\ records[1].id = 3

\* ---------------------------------------- claims on the strategy lookup
\* C21: distribute called with a strategy name that is not equal, weighted
\* or priority does not fail and returns exactly the groups the equal
\* strategy returns for the same records and agents.
C21_UnknownStrategyIsEqual ==
    (called /\ ValidInput /\ strategy \notin StrategyNames) =>
        /\ result.ok
        /\ result.agents = equalDistribution(records, ActiveAgents)

\* ----------------------------------------- claims on the status workflow
\* C22: a record's status follows pending -> in-progress -> completed |
\* failed: an accepted update takes a record to in-progress only from
\* pending, and to completed or failed only from in-progress.
C22_StatusWorkflow ==
    [][ (UpdateServed /\ resp'.status # resp'.oldStatus) =>
          /\ resp'.status = "in-progress" => resp'.oldStatus = "pending"
          /\ resp'.status \in {"completed", "failed"} => resp'.oldStatus = "in-progress"
      ]_vars

\* --------------------------------------- claims on the stored summary
\* C23: in every state of a stored Distribution its
\* summary.averageRecordsPerAgent is totalRecords / numberOfGroups rounded
\* to two decimals, as the engine computed it, and its distributionVariance
\* is max - min of the group counts.
C23_StoredSummary ==
    \A d \in DistIds :
        dists[d].exists =>
            LET summary == generateSummary(dists[d].agents, dists[d].totalRecords)
            IN  /\ dists[d].summary.averageRecordsPerAgent = summary.averageRecordsPerAgent
                /\ "distributionVariance" \in DOMAIN dists[d].summary
                /\ dists[d].summary.distributionVariance = summary.distributionVariance

\* ------------------------------------ claims on the record count
\* C24: in every state of a Distribution, after redistribute is applied to
\* it as after creation and status updates, the number of records over all
\* its groups is its totalRecords.
C24_RecordCountIsTotal ==
    (called /\ redistribution.ok) =>
        SumSeq(Sizes(redistribution.agents)) = redistribution.totalRecords

\* ------------------------------------------- claims on the creation
\* C25: creating a Distribution is atomic with respect to the counters:
\* wherever uploadAndDistribute, alone on the store, fails or succeeds,
\* either the Distribution is stored and every agent's assignedTasks has
\* grown by the assignedCount of its group, or the Distribution is not
\* stored and no assignedTasks has changed.
C25_CreateAtomic ==
    \A r \in ReqIds :
        ( /\ SentAre({r})
          /\ reqs[r].op = "uploadAndDistribute"
          /\ reqs[r].pc = "done" ) =>
            \A u \in UserIds :
                users[u].assignedTasks = SumSeq([d \in DistIds |-> AssignedShare(dists, d, u)])

\* ------------------------------------------- claims on the engine's inputs
\* C26: distribute and redistribute are pure with respect to their inputs:
\* a call leaves the caller's record list with the same elements in the same
\* order, the agents list unchanged and the original distribution handed to
\* redistribute with the same records and assignedCount in every group.
C26_InputsUntouched ==
    [][ /\ records' = records
        /\ agents' = agents
        /\ failedTasks' = failedTasks
        /\ originalDistribution' = originalDistribution
      ]_<<engineVars, utilVars>>

\* ------------------------------------------- claims on redistribution's counts
\* C27: when every group of the distribution handed to redistribute has
\* assignedCount = records.length, every group of the distribution it
\* returns has assignedCount = records.length too, whatever the failed
\* records are.
C27_CountsStayLengths ==
    [][ ( /\ redistribution'.ok
          /\ \A i \in 1..Len(originalDistribution.agents) :
                originalDistribution.agents[i].assignedCount =
                    Len(originalDistribution.agents[i].records) ) =>
            \A j \in 1..Len(redistribution'.agents) :
                redistribution'.agents[j].assignedCount = Len(redistribution'.agents[j].records)
      ]_utilVars

\* two failed records went to two groups, one of which was empty
C27_Witness ==
    /\ called /\ redistribution.ok
    /\ Len(failedTasks) = 2
    /\ Len(redistribution.agents) = 2
    /\ redistribution.agents[1].assignedCount = 1
    /\ IsRedistributed(redistribution.agents[1].records[1])
    /\ redistribution.agents[2].assignedCount = 3
    /\ IsRedistributed(redistribution.agents[2].records[3])

\* ------------------------------------------- claims on the priority orders
\* C28: under strategy priority the records are ordered by descending
\* length of their notes and the agents by descending performance score,
\* and in both orders elements of equal key keep the relative order they had
\* in the input (the ids of the records and of the agents are their
\* positions in the input).
C28_StableDescending ==
    (called /\ ValidInput /\ strategy = "priority") =>
        LET out == result.agents
            perf(k) == calculateAgentPerformance(AgentOf(out[k]))
        IN  /\ {records[i].id : i \in 1..Len(records)} = 1..Len(records)
            /\ \A i \in 1..(Len(records) - 1) :
                 \/ records[i].notes > records[i + 1].notes
                 \/ /\ records[i].notes = records[i + 1].notes
                    /\ records[i].id < records[i + 1].id
            /\ {out[k].agentId : k \in 1..Len(out)} =
                   {ActiveAgents[k]._id : k \in 1..Len(ActiveAgents)}
            /\ \A k \in 1..(Len(out) - 1) :
                 /\ RatLeq(perf(k + 1), perf(k))
                 /\ RatLeq(perf(k), perf(k + 1)) => out[k].agentId < out[k + 1].agentId

\* two records of equal notes length and two agents of equal score moved
\* ahead of a lower first element, each pair in its input order
C28_Witness ==
    /\ called /\ strategy = "priority" /\ result.ok
    /\ Len(records) = 3
    /\ records[1].id = 2 /\ records[2].id = 3 /\ records[3].id = 1
    /\ Len(result.agents) = 3
    /\ result.agents[1].agentId = 2
    /\ result.agents[2].agentId = 3
    /\ result.agents[3].agentId = 1

\* ------------------------------------------- claims on the agents' profiles
\* C29: the agentName and agentEmail of a Distribution's groups are value
\* copies taken at distribution time: an update of an agent's profile, a
\* deactivation included, leaves the agentName and agentEmail of every group
\* of every existing Distribution as they were.
C29_GroupProfilesKept ==
    [][ resp'.op = "updateAgent" =>
          \A d \in DistIds :
              dists[d].exists =>
                  /\ dists'[d].exists
                  /\ Len(dists'[d].agents) = Len(dists[d].agents)
                  /\ \A g \in 1..Len(dists[d].agents) :
                       /\ dists'[d].agents[g].agentId = dists[d].agents[g].agentId
                       /\ dists'[d].agents[g].agentName = dists[d].agents[g].agentName
                       /\ dists'[d].agents[g].agentEmail = dists[d].agents[g].agentEmail
      ]_vars

\* an agent was renamed and given another address after a distribution: the
\* group still carries the old ones
C29_Witness ==
    /\ resp.op = "updateAgent" /\ resp.code = 200
    /\ \E d \in DistIds :
          /\ dists[d].exists
          /\ \E g \in 1..Len(dists[d].agents) :
                LET agent == users[dists[d].agents[g].agentId]
                IN  /\ dists[d].agents[g].agentName # agent.name
                    /\ dists[d].agents[g].agentEmail # agent.email

\* ------------------------------------------- claims on the other entry points
\* C30: every entry point that changes a record's status or removes a
\* Distribution keeps the agent counters as distributionController does:
\* a successful update through the mounted controller or the PATCH route
\* moves completedTasks by +1 or -1 when the record crosses the completed
\* boundary, and a successful delete takes the groups' assignedCount and
\* completed records off the counters.
C30_EntryPointsCount ==
    [][ /\ ( /\ resp'.op \in {"updateRecordStatusNew", "patchRecordStatus"}
             /\ resp'.code = 200 ) =>
               users' = updateTaskCounts(users, resp'.user, resp'.oldStatus, resp'.status)
        /\ ( /\ resp'.op = "deleteDistributionNew"
             /\ resp'.code = 200 ) =>
               users' = decCounts(users, dists[resp'.id].agents)
      ]_vars

====
